---- MODULE Spec2Model ----
(***************************************************************************)
(* State-machine model of ghostchat's headless client (ghost_client.py):   *)
(* the GhostClient object, the aiortc peer connections and data channels   *)
(* it creates, the asyncio tasks its callbacks schedule, and the           *)
(* coroutines of its callers.                                              *)
(***************************************************************************)
EXTENDS Integers, Sequences, FiniteSets, TLC

\* ------------------------------------------------------------------ bounds
\* Inputs one client takes that it could take without end: negotiations
\* started, credentials set, close calls, chat sends, calls that raise, timer
\* expiries, frames from a peer outside the model.
MaxInputs == 3
\* The longest descriptor text put through the codec by itself, in characters.
MaxText == 2
\* Frames the relay's clients send it, all connections together.
MaxFrames == 1

\* ------------------------------------------------------------- value sets
Absent == "<absent>"
\* Python's None where a key or a room id goes
NoKey == 0
NoRoom == 0
Tags == {"O:", "A:", "X:"}
\* receive()'s timeout argument: -1 stands for Python's None.
NoTimeout == 0 - 1
Timeouts == {NoTimeout, 0, 1}

\* A connection descriptor (SDP text): who produced it and of which kind.
NoDesc == [owner |-> "none", gen |-> 0, type |-> "none"]
ExtOffer == [owner |-> "ext", gen |-> 0, type |-> "offer"]
ExtAnswer == [owner |-> "ext", gen |-> 0, type |-> "answer"]

\* A JSON plaintext.  json is "object" for a dict, "other" for valid JSON that
\* is not a dict, "invalid" for text json.loads rejects.  A key the dict lacks
\* is Absent.  (ts is carried exactly like id and is left out.)
Plain(type, id, from, nk, text, messages) ==
    [json |-> "object", type |-> type, id |-> id, from |-> from, peerId |-> Absent,
     nick |-> nk, text |-> text, messages |-> messages]

\* An entry of a sync frame's messages list: obj is FALSE for a non-dict.
Entry(obj, type, id, from, nk, text) ==
    [obj |-> obj, type |-> type, id |-> id, from |-> from, nick |-> nk, text |-> text]

NoPlain == [json |-> "invalid", type |-> Absent, id |-> Absent, from |-> Absent,
            peerId |-> Absent, nick |-> Absent, text |-> Absent, messages |-> <<>>]
NonObject == [NoPlain EXCEPT !.json = "other"]

\* The Message dataclass; arr is not a field of the program: it records the
\* arrival number of the frame the Message was built from.
NoMsg == [id |-> "", type |-> "none", from_id |-> "", nick |-> "", text |-> "", arr |-> 0]

\* A frame on the data channel.  b64 says whether it is base64url of at least
\* an iv and a tag; key is the key it was sealed under.
Garbage == [b64 |-> FALSE, key |-> NoKey, plain |-> NoPlain]

\* A code: the tag its text starts with and the text after it.
NoCode == [tag |-> "", payload |-> <<>>]

\* no scenario is being driven
NoScript == [X |-> "off", Y |-> "off"]
\* no relay process, no text in the codec
NoRelay == [on |-> FALSE]
NoCodec == [on |-> FALSE]

VARIABLES
    client,   \* client[s]: the GhostClient object s
    pcs,      \* pcs[s]: the RTCPeerConnection objects s created, oldest first
    tasks,    \* tasks[s]: the tasks s's callbacks scheduled (ensure_future), FIFO
    co,       \* co[s]: where s's caller is suspended ("idle": between calls)
    wire,     \* wire[s]: frames s handed to dc.send, not yet carried over
    errlog,   \* errlog[s]: the lines _handle_raw printed
    hist,     \* hist[s]: counters of what happened to s (bounds the model)
    last,     \* the step just taken: what it returned, raised or transmitted
    script,   \* script[s]: where s's caller stands in the end-to-end scenario
    relay,    \* the relay process (relay.py): registry, connections, handlers
    codec     \* a descriptor text on its way through compress_sdp / decompress_sdp

vars == <<client, pcs, tasks, co, wire, errlog, hist, last, script, relay, codec>>

\* what the steps of a client leave alone besides the scenario's script
apart == <<relay, codec>>
\* the clients and their callers
chat == <<client, pcs, tasks, co, wire, errlog, hist, last, script>>

Sessions == DOMAIN client

\* ---------------------------------------------------------------- CRYPTO

\* Bytes are numbers 0..255.  A character of a base64 text is the number of
\* its sextet (0..63, either alphabet: urlsafe_b64decode maps '-' and '_' to
\* '+' and '/' first), Pad for '=', Junk for any character outside the
\* alphabet ('!', a blank, a newline).
Pad == 64
Junk == 65

\* base64.urlsafe_b64encode: three bytes make four characters; a last group of
\* one or two bytes is padded with '='
RECURSIVE urlsafe_b64encode(_)
urlsafe_b64encode(data) ==
    IF data = <<>> THEN <<>>
    ELSE IF Len(data) = 1
    THEN <<data[1] \div 4, (data[1] % 4) * 16, Pad, Pad>>
    ELSE IF Len(data) = 2
    THEN <<data[1] \div 4, (data[1] % 4) * 16 + (data[2] \div 16), (data[2] % 16) * 4, Pad>>
    ELSE <<data[1] \div 4, (data[1] % 4) * 16 + (data[2] \div 16),
           (data[2] % 16) * 4 + (data[3] \div 64), data[3] % 64>>
         \o urlsafe_b64encode(SubSeq(data, 4, Len(data)))

\* bytes.rstrip(b'=')
RECURSIVE rstrip(_)
rstrip(s) ==
    IF s # <<>> /\ s[Len(s)] = Pad THEN rstrip(SubSeq(s, 1, Len(s) - 1)) ELSE s

\* '=' * n
RECURSIVE Pads(_)
Pads(n) == IF n <= 0 THEN <<>> ELSE <<Pad>> \o Pads(n - 1)

\* binascii.a2b_base64 as urlsafe_b64decode calls it (not strict), from
\* character i on: quad is the position in the group of four, left the bits
\* not yet written, pads the '=' seen in a row.  Characters outside the
\* alphabet are skipped; an '=' ends the data once the group is complete
\* with it; a group left open at the end is an error.
RECURSIVE a2b_base64(_, _, _, _, _, _)
a2b_base64(s, i, quad, left, pads, out) ==
    IF i > Len(s)
    THEN IF quad = 0 THEN [ok |-> TRUE, err |-> "", data |-> out]
         ELSE [ok |-> FALSE, err |-> "binascii.Error", data |-> <<>>]
    ELSE LET c == s[i] IN
         IF c = Pad
         THEN IF quad >= 2 /\ quad + pads + 1 >= 4
              THEN [ok |-> TRUE, err |-> "", data |-> out]
              ELSE a2b_base64(s, i + 1, quad, left, IF quad >= 2 THEN pads + 1 ELSE pads, out)
         ELSE IF c = Junk THEN a2b_base64(s, i + 1, quad, left, pads, out)
         ELSE CASE quad = 0 -> a2b_base64(s, i + 1, 1, c, 0, out)
                [] quad = 1 -> a2b_base64(s, i + 1, 2, c % 16, 0,
                                          Append(out, left * 4 + (c \div 16)))
                [] quad = 2 -> a2b_base64(s, i + 1, 3, c % 4, 0,
                                          Append(out, left * 16 + (c \div 4)))
                [] OTHER -> a2b_base64(s, i + 1, 0, 0, 0, Append(out, left * 64 + c))

\* b64url_decode gone wrong: the stripped padding is not restored
b64url_decode_unpadded(s) == a2b_base64(s, 1, 0, 0, 0, <<>>)

\* b64url_encode: urlsafe_b64encode(data).rstrip(b'=')
b64url_encode(data) == rstrip(urlsafe_b64encode(data))

\* b64url_decode: s += '=' * (4 - len(s) % 4), then urlsafe_b64decode
b64url_decode(s) == a2b_base64(s \o Pads(4 - (Len(s) % 4)), 1, 0, 0, 0, <<>>)

\* str.encode(): UTF-8 of a text (a sequence of code points below 2048)
RECURSIVE str_encode(_)
str_encode(text) ==
    IF text = <<>> THEN <<>>
    ELSE (IF text[1] < 128 THEN <<text[1]>>
          ELSE <<192 + (text[1] \div 64), 128 + (text[1] % 64)>>)
         \o str_encode(Tail(text))

\* bytes.decode(): raises UnicodeDecodeError on bytes that are no UTF-8
RECURSIVE bytes_decode(_)
bytes_decode(data) ==
    IF data = <<>> THEN [ok |-> TRUE, text |-> <<>>]
    ELSE IF data[1] < 128
    THEN LET r == bytes_decode(Tail(data)) IN
         [ok |-> r.ok, text |-> <<data[1]>> \o r.text]
    ELSE IF data[1] >= 194 /\ data[1] < 224 /\ Len(data) >= 2
            /\ data[2] >= 128 /\ data[2] < 192
    THEN LET r == bytes_decode(SubSeq(data, 3, Len(data))) IN
         [ok |-> r.ok, text |-> <<(data[1] - 192) * 64 + data[2] - 128>> \o r.text]
    ELSE [ok |-> FALSE, text |-> <<>>]

\* The check value that ends a zlib stream (Adler-32, here in one byte).
RECURSIVE Adler(_)
Adler(data) == IF data = <<>> THEN 1 ELSE (data[1] + Adler(Tail(data))) % 256

\* zlib.compress: the two header bytes, the deflate body and the check value.
\* The body stands as its length and the bytes themselves (a stored block):
\* how deflate shortens them is not modelled.
zlib_compress(data) == <<120, 156, Len(data)>> \o data \o <<Adler(data)>>

\* zlib.decompress: raises zlib.error unless the header, the body's length
\* and the check value validate; bytes after the stream are ignored
zlib_decompress(raw) ==
    IF /\ Len(raw) >= 4
       /\ raw[1] = 120 /\ raw[2] = 156
       /\ Len(raw) >= raw[3] + 4
       /\ raw[raw[3] + 4] = Adler(SubSeq(raw, 4, raw[3] + 3))
    THEN [ok |-> TRUE, data |-> SubSeq(raw, 4, raw[3] + 3)]
    ELSE [ok |-> FALSE, data |-> <<>>]

\* AESGCM.generate_key(256): the bytes of a generated key
KeyLen == 32

\* A key is a positive number when it is KeyLen bytes long (the number tells
\* keys apart); bytes of another length n are the key 0 - (n + 1), whatever
\* their content.  len(key) is then:
KeyLength(key) == IF key > 0 THEN KeyLen ELSE 0 - (key + 1)

\* AESGCM(key): TypeError for a key that is no bytes, ValueError unless the
\* key is 128, 192 or 256 bits long
AESGCM(key) ==
    IF key = NoKey THEN "TypeError"
    ELSE IF KeyLength(key) \notin {16, 24, 32} THEN "ValueError"
    ELSE "ok"

\* encrypt_message gone wrong: the frame leaves unsealed (json.dumps(msg) as is)
encrypt_message_plain(key, plaintext) ==
    [b64 |-> TRUE, key |-> NoKey, plain |-> plaintext]

\* encrypt_message: AES-256-GCM under key; AESGCM(None) raises TypeError.
\* (The random iv is not modelled.)
encrypt_message(key, plaintext) ==
    [b64 |-> TRUE, key |-> key, plain |-> plaintext]

\* decrypt_message gone wrong: no authentication, any well-formed frame opens
decrypt_message_noauth(key, data) ==
    IF ~data.b64 THEN [ok |-> FALSE, err |-> "binascii.Error", plain |-> NoPlain]
    ELSE [ok |-> TRUE, err |-> "", plain |-> data.plain]

\* decrypt_message: fails on bad base64, then on a key AESGCM refuses, then
\* when the tag does not verify under key.
decrypt_message(key, data) ==
    IF ~data.b64 THEN [ok |-> FALSE, err |-> "binascii.Error", plain |-> NoPlain]
    ELSE IF AESGCM(key) # "ok" THEN [ok |-> FALSE, err |-> AESGCM(key), plain |-> NoPlain]
    ELSE IF data.key # key THEN [ok |-> FALSE, err |-> "InvalidTag", plain |-> NoPlain]
    ELSE [ok |-> TRUE, err |-> "", plain |-> data.plain]

\* ---------------------------------------------------------- SDP COMPRESS

\* compress_sdp: b64url_encode(zlib.compress(sdp.encode()))
compress_sdp(sdp) == b64url_encode(zlib_compress(str_encode(sdp)))

\* decompress_sdp: zlib.decompress(b64url_decode(data)).decode(); each of the
\* three calls may raise
decompress_sdp(data) ==
    LET raw == b64url_decode(data)
        inflated == zlib_decompress(raw.data)
        text == bytes_decode(inflated.data)
    IN  IF ~raw.ok THEN [ok |-> FALSE, err |-> "binascii.Error", sdp |-> <<>>]
        ELSE IF ~inflated.ok THEN [ok |-> FALSE, err |-> "zlib.error", sdp |-> <<>>]
        ELSE IF ~text.ok THEN [ok |-> FALSE, err |-> "UnicodeDecodeError", sdp |-> <<>>]
        ELSE [ok |-> TRUE, err |-> "", sdp |-> text.text]

\* ----------------------------------------------------------------- CLIENT

NickOf(s) == IF s = "X" THEN "alice" ELSE "bob"

\* f"{nick} joined"
Joined(nk) ==
    CASE nk = "alice" -> "alice joined"
      [] nk = "bob" -> "bob joined"
      [] nk = "eve" -> "eve joined"
      [] OTHER -> "? joined"

\* dict.get(key, default)
Get(v, default) == IF v = Absent THEN default ELSE v

\* GhostClient.__init__
NewClient(s) ==
    [nick |-> NickOf(s), my_id |-> s, room_id |-> NoRoom, room_key |-> NoKey,
     pc |-> 0, dc |-> 0, msg_queue |-> <<>>, connected |-> FALSE]

\* at: the await the caller is suspended in (create_room and accept_offer in
\* _wait_ice, receive in "wait_for" or in the bare "get", wait_connected);
\* flag: the event it waits for has fired (gathering complete, _connected
\* set); timeout: receive's argument
NewCo == [at |-> "idle", flag |-> FALSE, timeout |-> NoTimeout]
Suspend(op, flag, timeout) == [at |-> op, flag |-> flag, timeout |-> timeout]
\* arr: frames delivered; n: inputs taken; got: the arrival number of the last
\* Message receive returned
NewHist == [arr |-> 0, n |-> 0, got |-> 0]
Charge(h, s) == [h EXCEPT ![s].n = @ + 1]
\* op: the API call that returned, raised or suspended in _wait_ice, or the
\* task the loop ran ("": a transport event, or a call that began to wait);
\* res: "ok", "suspended" or the exception's name; arg: the code the call was
\* given; sent, frame: the frame the step handed to dc.send; msg: the Message
\* receive returned; code: the code returned; ice: what _wait_ice met (the
\* iceGatheringState it read at its start, or how its wait ended)
NoStep == [op |-> "", s |-> "", res |-> "", arg |-> NoCode, sent |-> FALSE,
           frame |-> Garbage, msg |-> NoMsg, code |-> NoCode, ice |-> ""]
Ret(op, s, res) == [NoStep EXCEPT !.op = op, !.s = s, !.res = res]
Called(op, s, res, arg) == [Ret(op, s, res) EXCEPT !.arg = arg]
Sent(op, s, out) == [Ret(op, s, out.res) EXCEPT !.sent = out.sent, !.frame = out.frame]

\* readyState of the channel object self.dc refers to ("none": self.dc is None)
ReadyState(s) == IF client[s].dc = 0 THEN "none" ELSE pcs[s][client[s].dc].rs

\* the message do_open builds
JoinMsg(c) == [NoPlain EXCEPT !.json = "object", !.type = "join",
                              !.peerId = c.my_id, !.nick = c.nick]

\* do_open: self._connected.set() and ensure_future(self._send_raw(join))
do_open_client(c) == [c EXCEPT !.connected = TRUE]
do_open_tasks(t, c) == Append(t, [kind |-> "_send_raw", plain |-> JoinMsg(c), frame |-> Garbage, arr |-> 0])
\* do_open_co gone wrong: set() leaves the waiter asleep
do_open_co_lost(k) == k
\* Event.set() resolves the future wait_connected is suspended on
do_open_co(k) == IF k.at = "wait_connected" THEN [k EXCEPT !.flag = TRUE] ELSE k

\* on_close: self._connected.clear()
on_close(c) == [c EXCEPT !.connected = FALSE]

\* on_message: ensure_future(self._handle_raw(data))
on_message(t, data, arr) ==
    Append(t, [kind |-> "_handle_raw", plain |-> NoPlain, frame |-> data, arr |-> arr])

\* _send_raw's outcome for message msg: the frame it hands to dc.send, if any.
\* Nothing is sent unless self.dc is set and open; encrypt_message raises on
\* a room_key of None.
send_raw(s, msg) ==
    IF ReadyState(s) # "open" THEN [res |-> "ok", sent |-> FALSE, frame |-> Garbage]
    ELSE IF AESGCM(client[s].room_key) # "ok"
         THEN [res |-> AESGCM(client[s].room_key), sent |-> FALSE, frame |-> Garbage]
    ELSE [res |-> "ok", sent |-> TRUE, frame |-> encrypt_message(client[s].room_key, msg)]

\* dc.send on the channel self.dc refers to: the frame is in flight to the
\* other end (and leaves the model when that end is outside it)
dc_send(w, s, out) ==
    IF out.sent /\ pcs[s][client[s].dc].remote.owner \in DOMAIN client
    THEN Append(w, [gen |-> client[s].dc, frame |-> out.frame]) ELSE w

\* QueuePut gone wrong: a LIFO queue
QueuePutFront(q, m) == <<m>> \o q

\* asyncio.Queue.put on the unbounded queue: never suspends
QueuePut(q, m) == Append(q, m)

ChatMessage(m, arr) ==
    [id |-> Get(m.id, ""), type |-> "chat", from_id |-> Get(m.from, ""),
     nick |-> Get(m.nick, "?"), text |-> Get(m.text, ""), arr |-> arr]

SysMessage(nk, text, arr) ==
    [id |-> "uuid4", type |-> "sys", from_id |-> "", nick |-> nk, text |-> text, arr |-> arr]

\* the sync branch's loop gone wrong: no test of the entry's type
RECURSIVE SyncPutAll(_, _, _)
SyncPutAll(q, entries, arr) ==
    IF entries = <<>> THEN [queue |-> q, err |-> ""]
    ELSE LET m == Head(entries) IN
         IF ~m.obj THEN [queue |-> q, err |-> "AttributeError"]
         ELSE SyncPutAll(QueuePut(q, ChatMessage(m, arr)), Tail(entries), arr)

\* the sync branch's loop: m.get raises on an entry that is no dict, after the
\* entries before it were put
RECURSIVE SyncPut(_, _, _)
SyncPut(q, entries, arr) ==
    IF entries = <<>> THEN [queue |-> q, err |-> ""]
    ELSE LET m == Head(entries) IN
         IF ~m.obj THEN [queue |-> q, err |-> "AttributeError"]
         ELSE SyncPut(IF m.type = "chat" THEN QueuePut(q, ChatMessage(m, arr)) ELSE q,
                      Tail(entries), arr)

\* _handle_raw on frame data: the queue afterwards and the error it printed
\* ("" when none).  Every exception is caught by its except clause.
handle_raw(c, data, arr) ==
    LET dec == decrypt_message(c.room_key, data)
        msg == dec.plain
        q == c.msg_queue
    IN  IF ~dec.ok THEN [queue |-> q, err |-> dec.err]
        ELSE IF msg.json = "invalid" THEN [queue |-> q, err |-> "JSONDecodeError"]
        ELSE IF msg.json # "object" THEN [queue |-> q, err |-> "AttributeError"]
        ELSE CASE Get(msg.type, "") = "chat" ->
                    [queue |-> QueuePut(q, ChatMessage(msg, arr)), err |-> ""]
               [] Get(msg.type, "") = "join" ->
                    [queue |-> QueuePut(q, SysMessage(Get(msg.nick, "?"),
                                                      Joined(Get(msg.nick, "?")), arr)),
                     err |-> ""]
               [] Get(msg.type, "") = "sync" -> SyncPut(q, msg.messages, arr)
               [] Get(msg.type, "") = "destroy" ->
                    [queue |-> QueuePut(q, SysMessage("", "Room destroyed by admin", arr)),
                     err |-> ""]
               [] OTHER -> [queue |-> q, err |-> ""]

\* ------------------------------------------------------------- TRANSPORT

\* RTCPeerConnection(config): sig is signalingState, remote the remote
\* description, rs the readyState of its data channel ("none": no channel
\* object yet; _setup_dc registers the client's handlers on every channel
\* object there is).
NewPc(role) == [role |-> role, sig |-> "stable", remote |-> NoDesc, rs |-> "none"]

Gens(s) == 1..Len(pcs[s])

\* The sdp text of a description: a letter for the connection's owner, a
\* digit for which of the owner's connections it is, a letter for its kind.
OwnerChar(o) == IF o = "X" THEN 88 ELSE IF o = "Y" THEN 89 ELSE 101
CharOwner(c) == IF c = 88 THEN "X" ELSE IF c = 89 THEN "Y" ELSE "ext"
Sdp(d) == <<OwnerChar(d.owner), 48 + d.gen, IF d.type = "offer" THEN 111 ELSE 97>>

\* RTCSessionDescription(sdp=sdp, type=type): the description the transport
\* reads out of the text, of the kind the caller names
RTCSessionDescription(sdp, type) ==
    [owner |-> CharOwner(sdp[1]), gen |-> sdp[2] - 48, type |-> type]

\* pc.localDescription.sdp of s's current peer connection
LocalDesc(s, type) == [owner |-> s, gen |-> client[s].pc, type |-> type]

\* The two ends agree: the remote description of (s, g) comes from a peer
\* outside the model, or from a modelled client's connection that holds
\* (s, g)'s description in turn.
Linked(s, g) ==
    LET d == pcs[s][g].remote IN
    \/ d.owner = "ext"
    \/ /\ d.owner \in Sessions
       /\ d.gen \in Gens(d.owner)
       /\ pcs[d.owner][d.gen].remote.owner = s
       /\ pcs[d.owner][d.gen].remote.gen = g
       /\ pcs[d.owner][d.gen].sig = "stable"

\* ------------------------------------------------------------ PUBLIC API

\* IsOfferCode gone wrong: the tag is not checked (the assert is stripped)
IsOfferCodeAny(code) == TRUE

\* offer_code.startswith('O:')
IsOfferCode(code) == code.tag = "O:"

\* answer_code.startswith('A:')
IsAnswerCode(code) == code.tag = "A:"

\* The descriptions a code can be made from: the connections of the clients
\* and those of a peer outside the model.
Descs == {ExtOffer, ExtAnswer}
         \cup [owner : {"X", "Y"}, gen : 0..MaxInputs, type : {"offer", "answer"}]

\* the payload of a code made from description d; the same text cut short
\* in the middle of the compressed stream; the same text with two characters
\* outside the base64url alphabet (a blank, a newline) put in front
GoodPayload(d) == compress_sdp(Sdp(d))
CutPayload(d) == SubSeq(GoodPayload(d), 1, Len(GoodPayload(d)) - 4)
JunkPayload(d) == <<Junk, Junk>> \o GoodPayload(d)

\* compress_sdp and decompress_sdp worked out once for the texts that occur
\* in a session: what compress_sdp makes of each description's text, and
\* what decompress_sdp makes of each payload a caller can hold
Compressed == [d \in Descs |-> GoodPayload(d)]
Payloads == {Compressed[d] : d \in Descs}
            \cup {CutPayload(d) : d \in {ExtOffer, ExtAnswer}}
            \cup {JunkPayload(d) : d \in {ExtOffer, ExtAnswer}}
Decompressed == [p \in Payloads |-> decompress_sdp(p)]

\* 'O:' + compress_sdp(self.pc.localDescription.sdp), and the same with 'A:'
OfferCode(s) == [tag |-> "O:", payload |-> Compressed[LocalDesc(s, "offer")]]
AnswerCode(s) == [tag |-> "A:", payload |-> Compressed[LocalDesc(s, "answer")]]

SessionNo(s) == IF s = "X" THEN 1 ELSE 2

\* generate_room_key(): 32 random bytes, a key not seen before; the g-th key
\* client s generates
generate_room_key(s, g) == 10 * SessionNo(s) + g

\* os.urandom(4).hex(), likewise
urandom_hex(s, g) == 10 * SessionNo(s) + g

\* create_room up to _wait_ice: a fresh room, a peer connection, a data
\* channel with the client's handlers, the local offer.  _wait_ice returns
\* at once when gathering is complete (ice), else the call is suspended.
create_room(s, ice) ==
    LET g == Len(pcs[s]) + 1 IN
    /\ co[s].at = "idle"
    /\ hist[s].n < MaxInputs
    /\ hist' = Charge(hist, s)
    /\ client' = [client EXCEPT ![s].room_id = urandom_hex(s, g),
                                ![s].room_key = generate_room_key(s, g),
                                ![s].pc = g, ![s].dc = g]
    /\ pcs' = [pcs EXCEPT ![s] = Append(@, [NewPc("offer") EXCEPT
                              !.sig = "have-local-offer", !.rs = "connecting"])]
    /\ co' = [co EXCEPT ![s] = IF ice = "complete" THEN @
                               ELSE Suspend("create_room", FALSE, NoTimeout)]
    /\ last' = IF ice = "complete"
              THEN [Ret("create_room", s, "ok") EXCEPT !.code = OfferCode(s)', !.ice = ice]
              ELSE [Ret("create_room", s, "suspended") EXCEPT !.ice = ice]
    /\ UNCHANGED <<tasks, wire, errlog>>

\* The bytes of a key and the key of bytes
KeyBytes(key) == [i \in 1..KeyLength(key) |-> IF key > 0 THEN key ELSE 0]
BytesKey(data) == IF Len(data) = KeyLen THEN data[1] ELSE 0 - (Len(data) + 1)

\* The keys of the two clients, a key of three bytes, and the texts a caller
\* has for them (b64url_encode of the bytes); the decoding of each text is
\* computed once
Keys == {generate_room_key(s, g) : s \in {"X", "Y"}, g \in 1..MaxInputs} \cup {BytesKey(<<0, 0, 0>>)}
KeyText == [k \in Keys |-> b64url_encode(KeyBytes(k))]
KeyDecoded == [t \in {KeyText[k] : k \in Keys} |-> b64url_decode(t)]

\* set_room: room_id is assigned, then the key is decoded from its text and
\* stored as it comes, whatever its length
set_room(s, rid, key_b64) ==
    LET raw == KeyDecoded[key_b64] IN
    /\ co[s].at = "idle"
    /\ hist[s].n < MaxInputs
    /\ hist' = Charge(hist, s)
    /\ client' = [client EXCEPT ![s].room_id = rid,
                                ![s].room_key = IF raw.ok THEN BytesKey(raw.data) ELSE @]
    /\ last' = Ret("set_room", s, IF raw.ok THEN "ok" ELSE "binascii.Error")
    /\ UNCHANGED <<pcs, tasks, co, wire, errlog>>

\* accept_offer up to _wait_ice
accept_offer(s, code, ice) ==
    LET g == Len(pcs[s]) + 1
        dec == Decompressed[code.payload]
    IN
    /\ co[s].at = "idle"
    /\ hist[s].n < MaxInputs
    /\ hist' = Charge(hist, s)
    /\ IF ~IsOfferCode(code)
       THEN /\ last' = Called("accept_offer", s, "AssertionError", code)
            /\ UNCHANGED <<client, pcs, co>>
       ELSE IF ~dec.ok
       THEN /\ last' = Called("accept_offer", s, dec.err, code)
            /\ UNCHANGED <<client, pcs, co>>
       ELSE /\ client' = [client EXCEPT ![s].pc = g]
            /\ pcs' = [pcs EXCEPT ![s] = Append(@, [NewPc("answer") EXCEPT !.remote = RTCSessionDescription(dec.sdp, "offer")])]
            /\ co' = [co EXCEPT ![s] = IF ice = "complete" THEN @
                                       ELSE Suspend("accept_offer", FALSE, NoTimeout)]
            /\ last' = IF ice = "complete"
                      THEN [Called("accept_offer", s, "ok", code) EXCEPT !.code = AnswerCode(s)', !.ice = ice]
                      ELSE [Called("accept_offer", s, "suspended", code) EXCEPT !.ice = ice]
    /\ UNCHANGED <<tasks, wire, errlog>>

\* wait_for(done.wait(), timeout) in _wait_ice: done was set, or the timeout
\* elapsed and asyncio.TimeoutError is raised
wait_for_done(k) == IF k.flag THEN "complete" ELSE "TimeoutError"

\* _wait_ice gone wrong: no except clause, the timeout goes up to the caller
wait_ice_fatal(how) == IF how = "TimeoutError" THEN "TimeoutError" ELSE "ok"

\* _wait_ice from its await on: `except asyncio.TimeoutError: pass`
wait_ice(how) == "ok"

\* _wait_ice returns, on the gathering event or on its timeout, and the
\* suspended create_room / accept_offer returns its code
wait_ice_return(s) ==
    LET how == wait_for_done(co[s])
        res == wait_ice(how)
    IN
    /\ co[s].at \in {"create_room", "accept_offer"}
    /\ co' = [co EXCEPT ![s] = NewCo]
    /\ last' = [Ret(co[s].at, s, res) EXCEPT
                  !.code = IF res # "ok" THEN NoCode
                           ELSE IF co[s].at = "create_room" THEN OfferCode(s) ELSE AnswerCode(s),
                  !.ice = how]
    /\ UNCHANGED <<client, pcs, tasks, wire, errlog, hist>>

\* setRemoteDescription gone wrong: an answer is taken in any signaling state
TakesAnswerAlways(p) == TRUE

\* pc.setRemoteDescription(type='answer'): the transport takes an answer only
\* on a connection that holds a local offer, and raises otherwise
TakesAnswer(p) == p.sig = "have-local-offer"

\* accept_answer: self.pc.setRemoteDescription raises on None and, in the
\* transport, unless the connection holds a local offer
accept_answer(s, code) ==
    LET dec == Decompressed[code.payload]
        g == client[s].pc
    IN
    /\ co[s].at = "idle"
    /\ IF ~IsAnswerCode(code)
       THEN last' = Called("accept_answer", s, "AssertionError", code) /\ UNCHANGED pcs
       ELSE IF ~dec.ok
       THEN last' = Called("accept_answer", s, dec.err, code) /\ UNCHANGED pcs
       ELSE IF g = 0
       THEN last' = Called("accept_answer", s, "AttributeError", code) /\ UNCHANGED pcs
       ELSE IF ~TakesAnswer(pcs[s][g])
       THEN last' = Called("accept_answer", s, "InvalidStateError", code) /\ UNCHANGED pcs
       ELSE /\ pcs' = [pcs EXCEPT ![s][g].remote = RTCSessionDescription(dec.sdp, "answer"), ![s][g].sig = "stable"]
            /\ last' = Called("accept_answer", s, "ok", code)
    /\ IF last'.res = "ok" THEN UNCHANGED hist
       ELSE hist[s].n < MaxInputs /\ hist' = Charge(hist, s)
    /\ UNCHANGED <<client, tasks, co, wire, errlog>>

\* the chat message send builds
ChatMsg(c, text) == Plain("chat", "uuid4", c.my_id, c.nick, text, <<>>)

\* send
send(s, text) ==
    LET out == send_raw(s, ChatMsg(client[s], text)) IN
    /\ co[s].at = "idle"
    /\ hist[s].n < MaxInputs
    /\ wire' = [wire EXCEPT ![s] = dc_send(@, s, out)]
    /\ hist' = Charge(hist, s)
    /\ last' = Sent("send", s, out)
    /\ UNCHANGED <<client, pcs, tasks, co, errlog>>

\* `if timeout:` in receive: wait_for(queue.get(), timeout) when the
\* argument is truthy, the bare queue.get() for None and for 0
Timed(timeout) == timeout # NoTimeout /\ timeout # 0

\* receive is called and suspends: in wait_for(queue.get(), timeout), or in
\* the bare queue.get()
receive_call(s, timeout) ==
    /\ co[s].at = "idle"
    /\ co' = [co EXCEPT ![s] = Suspend(IF Timed(timeout) THEN "wait_for" ELSE "get",
                                       FALSE, timeout)]
    /\ UNCHANGED <<client, pcs, tasks, wire, errlog, hist>>
    /\ last' = NoStep

\* queue.get() yields the oldest item
receive_return(s) ==
    /\ co[s].at \in {"wait_for", "get"}
    /\ client[s].msg_queue # <<>>
    /\ client' = [client EXCEPT ![s].msg_queue = Tail(@)]
    /\ co' = [co EXCEPT ![s] = NewCo]
    /\ hist' = [hist EXCEPT ![s].got = Head(client[s].msg_queue).arr]
    /\ last' = [Ret("receive", s, "ok") EXCEPT !.msg = Head(client[s].msg_queue)]
    /\ UNCHANGED <<pcs, tasks, wire, errlog>>

\* wait_for_cancel gone wrong: the cancelled get had already taken an item,
\* which is dropped
wait_for_cancel_drop(c) ==
    [c EXCEPT !.msg_queue = IF @ = <<>> THEN @ ELSE Tail(@)]

\* wait_for cancels its awaitable on timeout: the client is as it was
wait_for_cancel(c) == c

\* wait_for's timeout elapses in receive: asyncio.TimeoutError
receive_timeout(s) ==
    /\ co[s].at = "wait_for"
    /\ hist[s].n < MaxInputs
    /\ hist' = Charge(hist, s)
    /\ client' = [client EXCEPT ![s] = wait_for_cancel(@)]
    /\ co' = [co EXCEPT ![s] = NewCo]
    /\ last' = Ret("receive", s, "TimeoutError")
    /\ UNCHANGED <<pcs, tasks, wire, errlog>>

\* wait_connected is called: Event.wait() is done at once when the event is set
wait_connected_call(s) ==
    /\ co[s].at = "idle"
    /\ co' = [co EXCEPT ![s] = Suspend("wait_connected", client[s].connected, NoTimeout)]
    /\ UNCHANGED <<client, pcs, tasks, wire, errlog, hist>>
    /\ last' = NoStep

wait_connected_return(s) ==
    /\ co[s].at = "wait_connected"
    /\ co[s].flag
    /\ co' = [co EXCEPT ![s] = NewCo]
    /\ last' = Ret("wait_connected", s, "ok")
    /\ UNCHANGED <<client, pcs, tasks, wire, errlog, hist>>

\* wait_for's timeout elapses in wait_connected: asyncio.TimeoutError
wait_connected_timeout(s) ==
    /\ co[s].at = "wait_connected"
    /\ ~co[s].flag
    /\ hist[s].n < MaxInputs
    /\ hist' = Charge(hist, s)
    /\ client' = [client EXCEPT ![s] = wait_for_cancel(@)]
    /\ co' = [co EXCEPT ![s] = NewCo]
    /\ last' = Ret("wait_connected", s, "TimeoutError")
    /\ UNCHANGED <<pcs, tasks, wire, errlog>>

\* the property `connected`: self._connected.is_set()
connected(s) == client[s].connected

\* close: pc.close() when there is a peer connection; an open channel of it
\* closes and its close event runs on_close
close(s) ==
    LET g == client[s].pc IN
    /\ co[s].at = "idle"
    /\ hist[s].n < MaxInputs
    /\ hist' = Charge(hist, s)
    /\ IF g = 0 THEN UNCHANGED <<client, pcs>>
       ELSE /\ pcs' = [pcs EXCEPT ![s][g].sig = "closed",
                                  ![s][g].rs = IF @ = "open" THEN "closed" ELSE @]
            /\ client' = [client EXCEPT ![s] = IF pcs[s][g].rs = "open" THEN on_close(@) ELSE @]
    /\ last' = Ret("close", s, "ok")
    /\ UNCHANGED <<tasks, co, wire, errlog>>

\* ------------------------------------------------------------ EVENT LOOP

\* the loop runs the oldest scheduled task, a _send_raw(join)
run_send_raw(s) ==
    LET out == send_raw(s, Head(tasks[s]).plain) IN
    /\ tasks[s] # <<>>
    /\ Head(tasks[s]).kind = "_send_raw"
    /\ tasks' = [tasks EXCEPT ![s] = Tail(@)]
    /\ wire' = [wire EXCEPT ![s] = dc_send(@, s, out)]
    /\ last' = Sent("_send_raw", s, out)
    /\ UNCHANGED <<client, pcs, co, errlog, hist>>

\* the loop runs the oldest scheduled task, a _handle_raw(data); it runs to
\* its end without suspending
run_handle_raw(s) ==
    LET t == Head(tasks[s])
        h == handle_raw(client[s], t.frame, t.arr)
    IN
    /\ tasks[s] # <<>>
    /\ t.kind = "_handle_raw"
    /\ tasks' = [tasks EXCEPT ![s] = Tail(@)]
    /\ client' = [client EXCEPT ![s].msg_queue = h.queue]
    /\ errlog' = [errlog EXCEPT ![s] =
                    IF h.err = "" THEN @ ELSE Append(@, [arr |-> t.arr, err |-> h.err])]
    /\ last' = Ret("_handle_raw", s, IF h.err = "" THEN "ok" ELSE h.err)
    /\ UNCHANGED <<pcs, co, wire, hist>>

\* ------------------------------------------------------ TRANSPORT EVENTS

\* iceGatheringState becomes 'complete' while _wait_ice waits: done.set()
ice_complete(s) ==
    /\ co[s].at \in {"create_room", "accept_offer"}
    /\ ~co[s].flag
    /\ co' = [co EXCEPT ![s].flag = TRUE]
    /\ UNCHANGED <<client, pcs, tasks, wire, errlog, hist>>
    /\ last' = NoStep

\* the channel's 'open' event: on_open
channel_open(s, g) ==
    LET p == pcs[s][g] IN
    /\ p.rs = "connecting"
    /\ p.sig = "stable"
    /\ p.remote # NoDesc
    /\ Linked(s, g)
    /\ p.remote.owner \in Sessions => pcs[p.remote.owner][p.remote.gen].rs # "none"
    /\ pcs' = [pcs EXCEPT ![s][g].rs = "open"]
    /\ client' = [client EXCEPT ![s] = do_open_client(@)]
    /\ tasks' = [tasks EXCEPT ![s] = do_open_tasks(@, client[s])]
    /\ co' = [co EXCEPT ![s] = do_open_co(@)]
    /\ UNCHANGED <<wire, errlog, hist>>
    /\ last' = NoStep

\* the answering connection's 'datachannel' event: on_dc, _setup_dc; the
\* channel it hands over is already open (then do_open runs at once) or
\* still connecting
datachannel(s, g, ready) ==
    LET p == pcs[s][g] IN
    /\ p.role = "answer"
    /\ p.rs = "none"
    /\ p.sig = "stable"
    /\ ~(co[s].at = "accept_offer" /\ client[s].pc = g)
    /\ Linked(s, g)
    /\ pcs' = [pcs EXCEPT ![s][g].rs = ready]
    /\ client' = [client EXCEPT ![s] =
                    IF ready = "open" THEN do_open_client([@ EXCEPT !.dc = g])
                    ELSE [@ EXCEPT !.dc = g]]
    /\ tasks' = [tasks EXCEPT ![s] = IF ready = "open" THEN do_open_tasks(@, client[s]) ELSE @]
    /\ co' = [co EXCEPT ![s] = IF ready = "open" THEN do_open_co(@) ELSE @]
    /\ UNCHANGED <<wire, errlog, hist>>
    /\ last' = NoStep

\* the channel's 'close' event (the peer closed, or the transport failed)
channel_close(s, g) ==
    /\ pcs[s][g].rs = "open"
    /\ pcs' = [pcs EXCEPT ![s][g].rs = "closed"]
    /\ client' = [client EXCEPT ![s] = on_close(@)]
    /\ last' = NoStep
    /\ UNCHANGED <<tasks, co, wire, errlog, hist>>

\* the channel's 'message' event with a frame from a peer outside the model
inject(s, g, data) ==
    /\ pcs[s][g].rs = "open"
    /\ pcs[s][g].remote.owner = "ext"
    /\ hist[s].n < MaxInputs
    /\ tasks' = [tasks EXCEPT ![s] = on_message(@, data, hist[s].arr + 1)]
    /\ hist' = [hist EXCEPT ![s].arr = @ + 1, ![s].n = @ + 1]
    /\ UNCHANGED <<client, pcs, co, wire, errlog>>
    /\ last' = NoStep

\* the transport carries the oldest frame s sent to the other end: the
\* 'message' event of a modelled peer's channel, or out of the model
carry(s) ==
    LET m == Head(wire[s])
        d == pcs[s][m.gen].remote
    IN
    /\ wire[s] # <<>>
    /\ IF d.owner \in Sessions /\ d.owner # s
       THEN /\ pcs[d.owner][d.gen].rs \in {"open", "closed"}
            /\ IF pcs[d.owner][d.gen].rs = "open"
               THEN /\ tasks' = [tasks EXCEPT ![d.owner] = on_message(@, m.frame, hist[d.owner].arr + 1)]
                    /\ hist' = [hist EXCEPT ![d.owner].arr = @ + 1]
               ELSE UNCHANGED <<tasks, hist>>
       ELSE UNCHANGED <<tasks, hist>>
    /\ wire' = [wire EXCEPT ![s] = Tail(@)]
    /\ UNCHANGED <<client, pcs, co, errlog>>
    /\ last' = NoStep

\* ----------------------------------------------------------- ENVIRONMENT

Sealed(k, p) == [b64 |-> TRUE, key |-> k, plain |-> p]

ChatPing == Plain("chat", "m1", "P", "eve", "ping", <<>>)
ChatEcho == Plain("chat", "m2", "X", "alice", "echo", <<>>)
JoinEve == [Plain("join", Absent, Absent, "eve", Absent, <<>>) EXCEPT !.peerId = "P"]
SyncTwo == Plain("sync", Absent, Absent, Absent, Absent,
                 <<Entry(TRUE, "chat", "m3", "P", "eve", "old1"),
                   Entry(TRUE, "join", Absent, Absent, "eve", Absent),
                   Entry(TRUE, "chat", "m4", "Q", Absent, "old2")>>)
\* a sync frame whose list holds, after a chat, an entry that is no object
\* ({"type": "sync", "messages": [{...chat...}, 7]})
SyncBad == Plain("sync", Absent, Absent, Absent, Absent,
                 <<Entry(TRUE, "chat", "m5", "P", "eve", "old3"),
                   Entry(FALSE, Absent, Absent, Absent, Absent, Absent)>>)

\* what a peer outside the model may put on the channel
ExtPlains == {ChatPing, ChatEcho, JoinEve, SyncTwo, SyncBad, NonObject}
\* a peer outside the model seals under the first key X generated, or under
\* the room key of another client
ExtKey == generate_room_key("X", 1)
OtherKey == generate_room_key("Y", 1)
ShortKey == BytesKey(<<0, 0, 0>>)
ExtKeyTexts == {KeyText[OtherKey], KeyText[ShortKey]}
ExtFrames == {Garbage, Sealed(OtherKey, ChatPing)} \cup {Sealed(ExtKey, p) : p \in ExtPlains}

\* the codes a caller may have been given
ExtPayloads(t) ==
    LET d == IF t = "A:" THEN ExtAnswer ELSE ExtOffer
    IN  {GoodPayload(d), CutPayload(d)} \cup (IF t = "X:" THEN {} ELSE {JunkPayload(d)})
ExtCodes == UNION {{[tag |-> t, payload |-> p] : p \in ExtPayloads(t)} : t \in Tags}

Texts == {"ping"}
IceStates == {"gathering", "complete"}

\* ------------------------------------------------------------------ Spec

\* one client, constructed; its peer is outside the model
Init ==
    /\ client = [s \in {"X"} |-> NewClient(s)]
    /\ pcs = [s \in {"X"} |-> <<>>]
    /\ tasks = [s \in {"X"} |-> <<>>]
    /\ co = [s \in {"X"} |-> NewCo]
    /\ wire = [s \in {"X"} |-> <<>>]
    /\ errlog = [s \in {"X"} |-> <<>>]
    /\ hist = [s \in {"X"} |-> NewHist]
    /\ last = NoStep
    /\ script = NoScript
    /\ relay = NoRelay
    /\ codec = NoCodec

\* The steps of a client whose peer and caller are free: each API call with
\* every argument, each task of the loop, each event of the transport.
Names == {"X", "Y"}

CreateRoom ==
    \E s \in Names, ice \in IceStates :
        s \in Sessions /\ create_room(s, ice) /\ UNCHANGED <<script, apart>>
SetRoom ==
    \E s \in Names, kt \in ExtKeyTexts :
        s \in Sessions /\ set_room(s, urandom_hex("Y", 1), kt) /\ UNCHANGED <<script, apart>>
AcceptOffer ==
    \E s \in Names, code \in ExtCodes, ice \in IceStates :
        s \in Sessions /\ accept_offer(s, code, ice) /\ UNCHANGED <<script, apart>>
WaitIceReturn ==
    \E s \in Names : s \in Sessions /\ wait_ice_return(s) /\ UNCHANGED <<script, apart>>
AcceptAnswer ==
    \E s \in Names, code \in ExtCodes :
        s \in Sessions /\ accept_answer(s, code) /\ UNCHANGED <<script, apart>>
Send ==
    \E s \in Names, text \in Texts : s \in Sessions /\ send(s, text) /\ UNCHANGED <<script, apart>>
ReceiveCall ==
    \E s \in Names, timeout \in Timeouts :
        s \in Sessions /\ receive_call(s, timeout) /\ UNCHANGED <<script, apart>>
ReceiveReturn ==
    \E s \in Names : s \in Sessions /\ receive_return(s) /\ UNCHANGED <<script, apart>>
ReceiveTimeout ==
    \E s \in Names : s \in Sessions /\ receive_timeout(s) /\ UNCHANGED <<script, apart>>
WaitConnectedCall ==
    \E s \in Names : s \in Sessions /\ wait_connected_call(s) /\ UNCHANGED <<script, apart>>
WaitConnectedReturn ==
    \E s \in Names : s \in Sessions /\ wait_connected_return(s) /\ UNCHANGED <<script, apart>>
WaitConnectedTimeout ==
    \E s \in Names : s \in Sessions /\ wait_connected_timeout(s) /\ UNCHANGED <<script, apart>>
Close ==
    \E s \in Names : s \in Sessions /\ close(s) /\ UNCHANGED <<script, apart>>
RunSendRaw ==
    \E s \in Names : s \in Sessions /\ run_send_raw(s) /\ UNCHANGED <<script, apart>>
RunHandleRaw ==
    \E s \in Names : s \in Sessions /\ run_handle_raw(s) /\ UNCHANGED <<script, apart>>
IceComplete ==
    \E s \in Names : s \in Sessions /\ ice_complete(s) /\ UNCHANGED <<script, apart>>
ChannelOpen ==
    \E s \in Names, g \in 1..MaxInputs :
        s \in Sessions /\ g \in Gens(s) /\ channel_open(s, g) /\ UNCHANGED <<script, apart>>
DataChannel ==
    \E s \in Names, g \in 1..MaxInputs, ready \in {"open", "connecting"} :
        s \in Sessions /\ g \in Gens(s) /\ datachannel(s, g, ready) /\ UNCHANGED <<script, apart>>
ChannelClose ==
    \E s \in Names, g \in 1..MaxInputs :
        s \in Sessions /\ g \in Gens(s) /\ channel_close(s, g) /\ UNCHANGED <<script, apart>>
Inject ==
    \E s \in Names, g \in 1..MaxInputs, data \in ExtFrames :
        s \in Sessions /\ g \in Gens(s) /\ inject(s, g, data) /\ UNCHANGED <<script, apart>>

Next ==
    \/ CreateRoom \/ SetRoom \/ AcceptOffer \/ WaitIceReturn \/ AcceptAnswer
    \/ Send \/ ReceiveCall \/ ReceiveReturn \/ ReceiveTimeout
    \/ WaitConnectedCall \/ WaitConnectedReturn \/ WaitConnectedTimeout \/ Close
    \/ RunSendRaw \/ RunHandleRaw
    \/ IceComplete \/ ChannelOpen \/ DataChannel \/ ChannelClose \/ Inject

Spec == Init /\ [][Next]_vars

\* ------------------------------------------------------------ End to end

\* Two clients in one process, each driven by its own caller through the
\* handshake of the interop test: X creates the room and hands its code (and,
\* when Y asks for them, the room's credentials) to Y; Y answers; X accepts
\* the answer; both wait for the channel; X sends "ping"; Y receives, once
\* more if the first Message is a system notification.  The timers of
\* wait_connected and receive outlast the transport and are left out.
InitE2E ==
    /\ client = [s \in Names |-> NewClient(s)]
    /\ pcs = [s \in Names |-> <<>>]
    /\ tasks = [s \in Names |-> <<>>]
    /\ co = [s \in Names |-> NewCo]
    /\ wire = [s \in Names |-> <<>>]
    /\ errlog = [s \in Names |-> <<>>]
    /\ hist = [s \in Names |-> NewHist]
    /\ last = NoStep
    /\ script = [X |-> "start", Y |-> "start"]
    /\ relay = NoRelay
    /\ codec = NoCodec

\* X's caller holds the offer code; Y's caller holds the answer code
HasOffer == script.X # "start" /\ co["X"].at = "idle"
HasAnswer == script.Y \notin {"start"} /\ co["Y"].at = "idle"

XCreateRoom ==
    \E ice \in IceStates :
        /\ script.X = "start"
        /\ create_room("X", ice)
        /\ script' = [script EXCEPT !.X = "created"]
        /\ UNCHANGED apart
YSetRoom ==
    /\ script.Y = "start"
    /\ HasOffer
    /\ client["Y"].room_key = NoKey
    /\ set_room("Y", client["X"].room_id, KeyText[client["X"].room_key])
    /\ UNCHANGED <<script, apart>>
YAcceptOffer ==
    \E ice \in IceStates :
        /\ script.Y = "start"
        /\ HasOffer
        /\ accept_offer("Y", OfferCode("X"), ice)
        /\ script' = [script EXCEPT !.Y = "accepted"]
        /\ UNCHANGED apart
XAcceptAnswer ==
    /\ script.X = "created"
    /\ HasAnswer
    /\ accept_answer("X", AnswerCode("Y"))
    /\ script' = [script EXCEPT !.X = "answered"]
    /\ UNCHANGED apart
XWaitConnected ==
    /\ script.X = "answered"
    /\ wait_connected_call("X")
    /\ script' = [script EXCEPT !.X = "waited"]
    /\ UNCHANGED apart
YWaitConnected ==
    /\ script.Y = "accepted"
    /\ wait_connected_call("Y")
    /\ script' = [script EXCEPT !.Y = "waited"]
    /\ UNCHANGED apart
\* X's caller does not wait: it polls the property `connected` (a loop around
\* asyncio.sleep(0)) and goes on as soon as it reads True
XPollConnected ==
    /\ script.X = "answered"
    /\ co["X"].at = "idle"
    /\ connected("X")
    /\ script' = [script EXCEPT !.X = "waited"]
    /\ last' = NoStep
    /\ UNCHANGED <<client, pcs, tasks, co, wire, errlog, hist, apart>>
XSend ==
    /\ script.X = "waited"
    /\ send("X", "ping")
    /\ script' = [script EXCEPT !.X = "sent"]
    /\ UNCHANGED apart
YReceive ==
    /\ script.Y \in {"waited", "drained"}
    /\ receive_call("Y", 1)
    /\ script' = [script EXCEPT !.Y = IF @ = "waited" THEN "first" ELSE "second"]
    /\ UNCHANGED apart
\* Y's receive returns: the chat "ping" ends the scenario; one system
\* notification may come before it
YReceiveReturn ==
    LET m == Head(client["Y"].msg_queue) IN
    /\ script.Y \in {"first", "second"}
    /\ receive_return("Y")
    /\ script' = [script EXCEPT !.Y =
                    IF m.type = "chat" /\ m.text = "ping" THEN "done"
                    ELSE IF m.type = "sys" /\ @ = "first" THEN "drained"
                    ELSE "failed"]
    /\ UNCHANGED apart
Carry ==
    \E s \in Names : carry(s) /\ UNCHANGED <<script, apart>>

NextE2E ==
    \/ XCreateRoom \/ YSetRoom \/ YAcceptOffer \/ XAcceptAnswer
    \/ XWaitConnected \/ XPollConnected \/ YWaitConnected \/ XSend \/ YReceive \/ YReceiveReturn
    \/ WaitIceReturn \/ WaitConnectedReturn \/ RunSendRaw \/ RunHandleRaw
    \/ IceComplete \/ ChannelOpen \/ DataChannel \/ Carry

\* Each caller goes on with its next call, the loop runs every task it was
\* given, _wait_ice returns (on the event or on its timeout), and the
\* transport opens the channel and carries what it was handed.  Whether Y's
\* caller sets the room's credentials is its choice.
SpecE2E ==
    /\ InitE2E /\ [][NextE2E]_vars
    /\ WF_vars(XCreateRoom) /\ WF_vars(YAcceptOffer) /\ WF_vars(XAcceptAnswer)
    /\ WF_vars(XWaitConnected) /\ WF_vars(YWaitConnected) /\ WF_vars(XSend)
    /\ WF_vars(YReceive) /\ WF_vars(YReceiveReturn)
    /\ WF_vars(WaitIceReturn) /\ WF_vars(WaitConnectedReturn)
    /\ WF_vars(RunSendRaw) /\ WF_vars(RunHandleRaw)
    /\ WF_vars(ChannelOpen) /\ WF_vars(DataChannel) /\ WF_vars(Carry)

\* ---------------------------------------------------- The codec by itself

\* The characters a text is made of here: a letter, a newline and a letter
\* outside ASCII (two bytes in UTF-8).
SdpChars == {118, 10, 233}

RECURSIVE SdpTexts(_)
SdpTexts(n) ==
    IF n = 0 THEN {<<>>}
    ELSE SdpTexts(n - 1) \cup {Append(x, c) : x \in {y \in SdpTexts(n - 1) : Len(y) = n - 1},
                                              c \in SdpChars}

\* A text is compressed into a code's payload; the payload travels by hand
\* (and may pick up a blank or a newline, get its padding back, or lose its
\* last character); the payload is decompressed.
NewCodec(sdp) == [on |-> TRUE, at |-> "text", sdp |-> sdp, code |-> <<>>, hand |-> "as is",
                 out |-> [ok |-> FALSE, err |-> "", sdp |-> <<>>]]

InitCodec ==
    /\ client = <<>> /\ pcs = <<>> /\ tasks = <<>> /\ co = <<>>
    /\ wire = <<>> /\ errlog = <<>> /\ hist = <<>>
    /\ last = NoStep
    /\ script = NoScript
    /\ relay = NoRelay
    /\ codec \in {NewCodec(sdp) : sdp \in SdpTexts(MaxText)}

Compress ==
    /\ codec.at = "text"
    /\ codec' = [codec EXCEPT !.at = "code", !.code = compress_sdp(codec.sdp)]
    /\ UNCHANGED <<chat, relay>>

SlipIn ==
    \E i \in 0..Len(codec.code) :
        /\ codec.at = "code" /\ codec.hand = "as is"
        /\ codec' = [codec EXCEPT !.hand = "junk",
                                  !.code = SubSeq(@, 1, i) \o <<Junk>> \o SubSeq(@, i + 1, Len(@))]
        /\ UNCHANGED <<chat, relay>>

PadOut ==
    /\ codec.at = "code" /\ codec.hand = "as is"
    /\ codec' = [codec EXCEPT !.hand = "padded", !.code = Append(@, Pad)]
    /\ UNCHANGED <<chat, relay>>

CutShort ==
    /\ codec.at = "code" /\ codec.hand = "as is"
    /\ codec' = [codec EXCEPT !.hand = "cut", !.code = SubSeq(@, 1, Len(@) - 1)]
    /\ UNCHANGED <<chat, relay>>

Decompress ==
    /\ codec.at = "code"
    /\ codec' = [codec EXCEPT !.at = "done", !.out = decompress_sdp(codec.code)]
    /\ UNCHANGED <<chat, relay>>

NextCodec == Compress \/ SlipIn \/ PadOut \/ CutShort \/ Decompress

SpecCodec == InitCodec /\ [][NextCodec]_vars

\* ------------------------------------------------------------- The relay

\* relay.py: one process, one registry `rooms`, one handler coroutine per
\* websocket connection.  A handler runs from one await to the next in one
\* step; it can be suspended in every ws.send / peer.send (the frame is
\* written when send is called, the wait is for the buffer to drain) and in
\* `async for msg in ws` while no message is queued.
Conns == {"a", "b", "c"}
RoomIds == {"r1", "r2"}
NoRoomId == "<None>"

\* A request path, as the texts between its '?room=' markers:
\* '/' , '/?room=' , '/?room=r1' , '/?room=r2'
Paths == {<<"/">>, <<"/", "">>, <<"/", "r1">>, <<"/", "r2">>}

\* RoomOf gone wrong: a path is never refused, the room it lacks is 'r1'
RoomOfAny(path) == IF Len(path) > 1 /\ path[Len(path)] # "" THEN path[Len(path)] ELSE "r1"

\* path.split('?room=')[-1] if '?room=' in path else None
RoomOf(path) == IF Len(path) > 1 THEN path[Len(path)] ELSE NoRoomId

\* `not room`
NotRoom(room) == room = NoRoomId \/ room = ""

\* json.dumps of the three notices; a frame of a client, opaque to the relay
PeersNotice(n) == [type |-> "peers", count |-> n, from |-> "", n |-> 0]
JoinNotice == [type |-> "join", count |-> 0, from |-> "", n |-> 0]
LeaveNotice == [type |-> "leave", count |-> 0, from |-> "", n |-> 0]
Frame(c, n) == [type |-> "frame", count |-> 0, from |-> c, n |-> n]

\* The iterator of `for peer in rooms[room]`: the size and the members of
\* the set when the loop began, the members visited; dead once the set
\* object it runs over was dropped by `del rooms[room]` (empty for good: a
\* later rooms[room] is a new object).
NoIter == [on |-> FALSE, dead |-> FALSE, size |-> 0, orig |-> {}, seen |-> {}]

\* A handler: where it is suspended ("l22", "l27", "l30", "l34", "l42": the
\* line of the await; "none" before the connection, "done" after return,
\* "failed" after an exception left it), its room (what line 12 made of the
\* path), its iterator, the msg it forwards, whether the finally block runs
\* on an exception.
NewHandler == [at |-> "none", room |-> NoRoomId, it |-> NoIter, msg |-> JoinNotice, exc |-> FALSE]

\* What the last step did, for the properties to read: the handler that ran
\* (and the path it was called with), what it sent to whom, the exception
\* raised in it, and for each fan-out it finished or broke off the frame,
\* the other members when it began and the members it was sent to; left
\* says the same of the leave notices when the finally block is through.
NoLog == [by |-> "", op |-> "", path |-> <<>>, sent |-> {}, raised |-> "", ended |-> {},
          left |-> {}]
Log(c, op) == [NoLog EXCEPT !.by = c, !.op = op]

\* rooms[r] is the member set of r, keys the keys of the defaultdict; conn
\* is the state of each websocket; inbox the frames a client sent that the
\* handler has not taken.
NewRelay ==
    [on |-> TRUE,
     rooms |-> [r \in RoomIds |-> {}],
     keys |-> {},
     conn |-> [c \in Conns |-> "none"],
     hd |-> [c \in Conns |-> NewHandler],
     inbox |-> [c \in Conns |-> <<>>],
     nframes |-> 0,
     log |-> NoLog]

\* the set object a handler's iterator runs over, as it is now
IterSet(R, c) == IF R.hd[c].it.dead THEN {} ELSE R.rooms[R.hd[c].room]

\* `for peer in rooms[room]` begins: iter(rooms[room])
StartIter(R, c, at) ==
    LET r == R.hd[c].room IN
    [R EXCEPT !.hd[c].at = at,
              !.hd[c].it = [on |-> TRUE, dead |-> FALSE, size |-> Cardinality(R.rooms[r]),
                            orig |-> R.rooms[r], seen |-> {}]]

\* next() raises RuntimeError('Set changed size during iteration')
SizeChanged(R, c) == Cardinality(IterSet(R, c)) # R.hd[c].it.size

\* Unseen gone wrong: the loop runs over the members of every room
UnseenAnyRoom(R, c) == UNION {R.rooms[r] : r \in RoomIds} \ (R.hd[c].it.seen \cup {c})

\* the peers next() may yield that the loop body sends to (`if peer != ws`);
\* the order of a set is not the program's to choose
Unseen(R, c) == IterSet(R, c) \ (R.hd[c].it.seen \cup {c})

\* next() may raise StopIteration: nothing is left of what the set held when
\* the loop began
MayStop(R, c) == (R.hd[c].it.orig \cap IterSet(R, c)) \ (R.hd[c].it.seen \cup {c}) = {}

\* p.send(m) called by c's handler, p's connection being open
WsSend(R, c, p, m) == [R EXCEPT !.log.sent = @ \cup {[to |-> p, msg |-> m]}]

\* peer.send(m) from c's loop
PeerSent(R, c, p, m) == [WsSend(R, c, p, m) EXCEPT !.hd[c].it.seen = @ \cup {p}]

\* an exception is raised in c's handler
Raised(R, c, what) == [R EXCEPT !.hd[c].exc = TRUE, !.log.raised = what]

\* the handler is over; the server closes its connection
Ended(R, c) ==
    [R EXCEPT !.hd[c] = [NewHandler EXCEPT !.at = IF R.hd[c].exc THEN "failed" ELSE "done",
                                           !.room = R.hd[c].room,
                                           !.exc = R.hd[c].exc],
              !.conn[c] = "closed"]

\* the finally block of c's handler is through, finished or broken off
LeaveEnded(R, c) ==
    [R EXCEPT !.log.left = @ \cup {[others |-> R.hd[c].it.orig, got |-> R.hd[c].it.seen]}]

\* lines 41-42, from a next() on: a leave notice to one more peer, the end
\* of the loop, or an exception (from next(), or from send on a closed peer)
LeaveSteps(R, c) ==
    IF SizeChanged(R, c) THEN {Ended(Raised(LeaveEnded(R, c), c, "RuntimeError"), c)}
    ELSE {IF R.conn[p] = "open" THEN PeerSent(R, c, p, LeaveNotice)
          ELSE Ended(Raised(LeaveEnded(R, c), c, "ConnectionClosed"), c) : p \in Unseen(R, c)}
         \cup (IF MayStop(R, c) THEN {Ended(LeaveEnded(R, c), c)} ELSE {})

\* `del rooms[room]`: the key goes, and the set object with it
Del(R, r) ==
    [R EXCEPT !.rooms[r] = {}, !.keys = @ \ {r},
              !.hd = [x \in Conns |->
                        IF R.hd[x].it.on /\ R.hd[x].room = r
                        THEN [R.hd[x] EXCEPT !.it.dead = TRUE] ELSE R.hd[x]]]

\* rooms[room].discard(ws)
Discard(S, c) == S \ {c}

\* finally, lines 35-42: discard, then del or the first leave notice
Finally(R, c) ==
    LET r == R.hd[c].room
        left == Discard(R.rooms[r], c)
    IN  IF left = {}
        THEN {Ended(LeaveEnded(Del(R, r), c), c)}
        ELSE LeaveSteps(StartIter([R EXCEPT !.rooms[r] = left], c, "l42"), c)

\* the fan-out of c's msg is over, finished or broken off
FanOutEnded(R, c) ==
    [R EXCEPT !.log.ended = @ \cup {[msg |-> R.hd[c].msg, others |-> R.hd[c].it.orig \ {c},
                                     got |-> R.hd[c].it.seen]}]

\* lines 30-34.  AsyncFor: the loop asks for the next message: a queued one
\* is taken at once and its fan-out begins, a closed connection ends the
\* loop, otherwise the handler waits.  ForwardSteps: the fan-out from a
\* next() on; an exception runs the finally block.
RECURSIVE AsyncFor(_, _)
RECURSIVE ForwardSteps(_, _)
AsyncFor(R, c) ==
    IF R.inbox[c] # <<>>
    THEN ForwardSteps(StartIter([R EXCEPT !.inbox[c] = Tail(@), !.hd[c].msg = Head(R.inbox[c])],
                                c, "l34"), c)
    ELSE IF R.conn[c] # "open" THEN Finally(R, c)
    ELSE {[R EXCEPT !.hd[c].at = "l30", !.hd[c].it = NoIter, !.hd[c].msg = JoinNotice]}

ForwardSteps(R, c) ==
    IF SizeChanged(R, c) THEN Finally(Raised(FanOutEnded(R, c), c, "RuntimeError"), c)
    ELSE UNION {IF R.conn[p] = "open" THEN {PeerSent(R, c, p, R.hd[c].msg)}
                ELSE Finally(Raised(FanOutEnded(R, c), c, "ConnectionClosed"), c) :
                    p \in Unseen(R, c)}
         \cup (IF MayStop(R, c) THEN AsyncFor(FanOutEnded(R, c), c) ELSE {})

\* lines 25-27, from a next() on; an exception here leaves the handler with
\* no finally block around it
JoinSteps(R, c) ==
    IF SizeChanged(R, c) THEN {Ended(Raised(R, c, "RuntimeError"), c)}
    ELSE {IF R.conn[p] = "open" THEN PeerSent(R, c, p, JoinNotice)
          ELSE Ended(Raised(R, c, "ConnectionClosed"), c) : p \in Unseen(R, c)}
         \cup (IF MayStop(R, c) THEN AsyncFor(R, c) ELSE {})

\* len(rooms[room]) gone wrong: the count is taken before the joiner is added
CountBefore(R, room, c) == Cardinality(R.rooms[room] \ {c})

\* peers = len(rooms[room]), after rooms[room].add(ws)
Count(R, room, c) == Cardinality(R.rooms[room])

\* handle(ws, path), lines 10-22: the connection is accepted and the handler
\* runs to its first await
handle(c, path) ==
    LET room == RoomOf(path)
        R0 == [relay EXCEPT !.conn[c] = "open", !.hd[c].room = room, !.log = [Log(c, "handle") EXCEPT !.path = path]]
        R1 == [R0 EXCEPT !.rooms[room] = @ \cup {c}, !.keys = @ \cup {room},
                         !.hd[c].at = "l22"]
    IN  /\ relay.on
        /\ relay.conn[c] = "none"
        /\ relay' = IF NotRoom(room) THEN Ended(R0, c)
                    ELSE WsSend(R1, c, c, PeersNotice(Count(R1, room, c)))

\* the handler resumes after an await
resume(c) ==
    LET R == [relay EXCEPT !.log = Log(c, "resume")] IN
    /\ relay.on
    /\ \/ relay.hd[c].at = "l22" /\ relay' \in JoinSteps(StartIter(R, c, "l27"), c)
       \/ relay.hd[c].at = "l27" /\ relay' \in JoinSteps(R, c)
       \/ /\ relay.hd[c].at = "l30"
          /\ relay.inbox[c] # <<>> \/ relay.conn[c] # "open"
          /\ relay' \in AsyncFor(R, c)
       \/ relay.hd[c].at = "l34" /\ relay' \in ForwardSteps(R, c)
       \/ relay.hd[c].at = "l42" /\ relay' \in LeaveSteps(R, c)

\* a client sends a frame over its connection
ws_frame(c) ==
    /\ relay.on
    /\ relay.conn[c] = "open"
    /\ relay.nframes < MaxFrames
    /\ relay' = [relay EXCEPT !.nframes = @ + 1,
                              !.inbox[c] = Append(@, Frame(c, relay.nframes + 1)),
                              !.log = Log(c, "frame")]

\* a client disconnects, or its connection breaks
ws_closed(c) ==
    /\ relay.on
    /\ relay.conn[c] = "open"
    /\ relay' = [relay EXCEPT !.conn[c] = "closed", !.log = Log(c, "closed")]

InitRelay ==
    /\ client = <<>> /\ pcs = <<>> /\ tasks = <<>> /\ co = <<>>
    /\ wire = <<>> /\ errlog = <<>> /\ hist = <<>>
    /\ last = NoStep
    /\ script = NoScript
    /\ codec = NoCodec
    /\ relay = NewRelay

Handle == \E c \in Conns, path \in Paths : handle(c, path) /\ UNCHANGED <<chat, codec>>
Resume == \E c \in Conns : resume(c) /\ UNCHANGED <<chat, codec>>
WsFrame == \E c \in Conns : ws_frame(c) /\ UNCHANGED <<chat, codec>>
WsClosed == \E c \in Conns : ws_closed(c) /\ UNCHANGED <<chat, codec>>

NextRelay == Handle \/ Resume \/ WsFrame \/ WsClosed

SpecRelay == InitRelay /\ [][NextRelay]_vars

\* ------------------------------------------------------------ PROPERTIES

\* The connection-state names of the specification, read off the client:
\* Open is a channel in self.dc whose readyState is 'open'; Closed has been
\* reached once close() closed a peer connection or a channel's close event
\* fired.
IsOpen(s) == ReadyState(s) = "open"
EverClosed(s) == \E g \in Gens(s) : pcs[s][g].sig = "closed" \/ pcs[s][g].rs = "closed"

\* C1: receive never returns a chat Message whose from_id is the Session's
\* own my_id, whatever frames arrive.
C1_NoSelfEcho ==
    (last.op = "receive" /\ last.res = "ok")
        => ~(last.msg.type = "chat" /\ last.msg.from_id = client[last.s].my_id)

\* C2: every frame handed to dc.send, the automatic join as much as a chat of
\* send, is the JSON message sealed under the Session's current room key;
\* nothing goes out in the clear or under another key.
C2_SealedUnderRoomKey ==
    last.sent =>
        /\ last.op \in {"send", "_send_raw"}
        /\ last.frame.b64
        /\ last.frame.key # NoKey
        /\ last.frame.key = client[last.s].room_key
        /\ IF last.op = "send"
           THEN \E text \in Texts : last.frame.plain = ChatMsg(client[last.s], text)
           ELSE last.frame.plain = JoinMsg(client[last.s])

\* a chat goes out after set_room replaced the key create_room generated
C2_Witness ==
    /\ last.sent
    /\ last.op = "send"
    /\ client[last.s].room_key = OtherKey
    /\ Len(pcs[last.s]) > 0
    /\ pcs[last.s][1].role = "offer"

\* C3: a frame sealed under another key, or noise, adds nothing to the inbound
\* queue and ends nothing: the handler of every later valid frame still
\* queues its Message.
C3_BadFrameDropped ==
    [][\A s \in Names :
        (s \in Sessions /\ last'.op = "_handle_raw" /\ last'.s = s) =>
            LET t == Head(tasks[s])
                q == client[s].msg_queue
                q2 == client'[s].msg_queue
                authentic == t.frame.b64 /\ client[s].room_key # NoKey
                             /\ t.frame.key = client[s].room_key
            IN  /\ ~authentic =>
                    /\ q2 = q
                    /\ client'[s] = client[s]
                    /\ pcs' = pcs /\ co' = co
                    /\ tasks'[s] = Tail(tasks[s])
                /\ (authentic /\ t.frame.plain.type \in {"chat", "join"}) =>
                    /\ Len(q2) = Len(q) + 1
                    /\ SubSeq(q2, 1, Len(q)) = q
                    /\ q2[Len(q2)].arr = t.arr
                    /\ q2[Len(q2)].type = IF t.frame.plain.type = "chat" THEN "chat" ELSE "sys"
    ]_vars

\* a Message is queued from a frame that arrived after a frame that failed to
\* open, on a Session still connected
C3_Witness ==
    \E s \in Sessions : \E i \in DOMAIN errlog[s] :
        /\ errlog[s][i].err \in {"InvalidTag", "binascii.Error"}
        /\ client[s].msg_queue # <<>>
        /\ client[s].msg_queue[Len(client[s].msg_queue)].arr > errlog[s][i].arr
        /\ client[s].connected

\* the handshake is done on both sides: X holds Y's answer, Y has answered
Handshaken == script.X # "start" /\ script.X # "created" /\ script.Y # "start"
\* both wait_connected calls returned, X sent, and Y's receive returned the
\* chat "ping" after at most one system notification
PingReceived == script.X = "sent" /\ script.Y = "done"

\* C4 (as stated): createRoom, acceptOffer, acceptAnswer and an opening
\* transport lead to both wait_connected calls succeeding and to Y's receive
\* returning the chat "ping", after at most one join notification.
C4_Handshake == Handshaken ~> PingReceived

\* C4 (amended): the same, for a Y that called set_room with the room id and
\* key create_room gave X before it accepted the offer.
C4_HandshakeWithCredentials ==
    (Handshaken /\ client["Y"].room_key = client["X"].room_key) ~> PingReceived

\* Y drained X's join notification and then received the ping
C4_Witness ==
    /\ PingReceived
    /\ last.op = "receive" /\ last.s = "Y"
    /\ last.msg.text = "ping" /\ last.msg.from_id = "X"
    /\ hist["Y"].got = 2
    /\ client["Y"].room_key = generate_room_key("X", 1)

\* C5: send on a Session that is not Open fails with an error and transmits
\* nothing; it never returns normally without having transmitted.
C5_SendFailsWhenNotOpen ==
    (last.op = "send" /\ ~IsOpen(last.s)) => (last.res # "ok" /\ ~last.sent)

\* C6: once a Session has reached Closed it is never connected again and
\* never transmits again.
C6_ClosedIsTerminal ==
    \A s \in Sessions :
        EverClosed(s) => (~client[s].connected /\ ~IsOpen(s) /\ ~(last.sent /\ last.s = s))

\* C7: Messages leave the queue in the order their frames arrived: the queue
\* is ordered by arrival, and nothing in it arrived before the Message
\* receive returned last.
C7_ArrivalOrder ==
    \A s \in Sessions :
        LET q == client[s].msg_queue IN
        /\ \A i, j \in DOMAIN q : i < j => q[i].arr <= q[j].arr
        /\ \A i \in DOMAIN q : hist[s].got <= q[i].arr
        /\ (last.op = "receive" /\ last.res = "ok" /\ last.s = s) => last.msg.arr = hist[s].got

\* receive returned the Message of the first frame while the Message of the
\* second waits behind it
C7_Witness ==
    /\ last.op = "receive" /\ last.res = "ok"
    /\ last.msg.arr = 1
    /\ client[last.s].msg_queue # <<>>
    /\ Head(client[last.s].msg_queue).arr = 2

\* C8: a receive that was given a timeout (any non-negative number) never
\* waits in the bare queue.get(), where no timer runs: it waits under
\* wait_for, which raises when the timeout elapses.
C8_TimeoutGivenIsArmed ==
    \A s \in Sessions :
        co[s].at = "get" => co[s].timeout = NoTimeout

\* C9: a timeout of receive or of wait_connected leaves the client as it was
\* (queue, connection, room), and a Message leaves the queue only as the
\* result of a receive that returns it.
C9_TimeoutKeepsState ==
    [][\A s \in Names : s \in Sessions =>
        LET q == client[s].msg_queue
            q2 == client'[s].msg_queue
        IN  /\ (last'.res = "TimeoutError" /\ last'.s = s) =>
                /\ last'.op \in {"receive", "wait_connected"}
                /\ client'[s] = client[s]
                /\ pcs'[s] = pcs[s]
                /\ tasks'[s] = tasks[s]
            /\ q2 # q =>
                \/ /\ last'.op = "_handle_raw" /\ last'.s = s
                   /\ Len(q2) > Len(q) /\ SubSeq(q2, 1, Len(q)) = q
                \/ /\ last'.op = "receive" /\ last'.res = "ok" /\ last'.s = s
                   /\ q # <<>> /\ last'.msg = Head(q) /\ q2 = Tail(q)
    ]_vars

\* a receive timed out while a Message was in the queue
C9_Witness ==
    /\ last.op = "receive"
    /\ last.res = "TimeoutError"
    /\ client[last.s].msg_queue # <<>>

\* C10: accept_offer given a code whose tag is not 'O:' raises (the assert's
\* AssertionError) and leaves the Session as it was: no peer connection
\* created, room and queue unchanged, nothing scheduled.
C10_BadTagRejected ==
    [][\A s \in Names :
        (s \in Sessions /\ last'.op = "accept_offer" /\ last'.s = s
                         /\ last'.arg.tag \in Tags \ {"O:"}) =>
            /\ last'.res = "AssertionError"
            /\ client' = client /\ pcs' = pcs /\ co' = co
            /\ tasks' = tasks /\ wire' = wire /\ errlog' = errlog
    ]_vars

\* an Idle Session rejected a well-formed payload under the tag 'X:'
C10_Witness ==
    /\ last.op = "accept_offer"
    /\ last.res = "AssertionError"
    /\ last.arg.tag = "X:"
    /\ last.arg.payload = Compressed[ExtOffer]
    /\ client[last.s].pc = 0
    /\ pcs[last.s] = <<>>

C13_OneNegotiation ==
    \A s \in Sessions : Len(pcs[s]) <= 1

\* C19: once the channel of an Open Session has closed under it (the peer
\* closed, or the transport failed; not by its own close()), a receive called
\* on the empty queue does not suspend, and a send does not return normally:
\* both raise.
C19_CloseIsReported ==
    [][\A s \in Names :
        (s \in Sessions /\ ReadyState(s) = "closed"
                         /\ pcs[s][client[s].dc].sig # "closed") =>
            /\ ~( /\ co[s].at = "idle"
                  /\ co'[s].at \in {"get", "wait_for"}
                  /\ client[s].msg_queue = <<>>
                  /\ tasks[s] = <<>> )
            /\ ~(last'.op = "send" /\ last'.s = s /\ last'.res = "ok")
    ]_vars

\* C20: a payload made by compress_sdp from a descriptor text and handed over
\* as it is decompresses, without an error, to exactly that text.
C20_RoundTrip ==
    (codec.on /\ codec.at = "done" /\ codec.hand = "as is") =>
        (codec.out.ok /\ codec.out.sdp = codec.sdp)

\* a text with a character outside ASCII whose payload needed padding came
\* back as it was
C20_Witness ==
    /\ codec.on /\ codec.at = "done" /\ codec.hand = "as is"
    /\ \E i \in 1..Len(codec.sdp) : codec.sdp[i] > 127
    /\ Len(codec.code) % 4 # 0
    /\ codec.out.ok /\ codec.out.sdp = codec.sdp

\* C11: accept_offer and accept_answer, given a correctly tagged code whose
\* payload is not base64url (it holds a character outside the alphabet) or
\* does not decompress, raise and leave the peer connections and the client's
\* references to them as they were.
C11_BadPayloadRejected ==
    [][\A s \in Names :
        (/\ s \in Sessions /\ last'.s = s
         /\ \/ last'.op = "accept_offer" /\ last'.arg.tag = "O:"
            \/ last'.op = "accept_answer" /\ last'.arg.tag = "A:"
         /\ \/ \E i \in 1..Len(last'.arg.payload) : last'.arg.payload[i] \in {Junk, Pad}
            \/ ~Decompressed[last'.arg.payload].ok) =>
            /\ last'.res \in {"binascii.Error", "zlib.error", "UnicodeDecodeError"}
            /\ pcs' = pcs /\ client' = client
    ]_vars

\* The members of room r, and the connections whose handler joined r and is
\* over.
Members(r) == relay.rooms[r]
JoinedRoom(r) == {c \in Conns : relay.hd[c].room = r /\ relay.conn[c] # "none"}
Over(c) == relay.hd[c].at \in {"done", "failed"}

\* C14: when the relay is through with a frame it took from a member of a
\* room, every other member the room had when the fan-out began, that is
\* still a member with its connection open, has been sent the frame; the
\* frames sent are the frame taken, and none goes to the connection it came
\* from.
C14_FanOut ==
    relay.on =>
        /\ \A e \in relay.log.ended : \A p \in e.others :
              (p \in Members(relay.hd[relay.log.by].room) /\ relay.conn[p] = "open") => p \in e.got
        /\ \A e \in relay.log.sent :
              e.msg.type = "frame" => (e.to # relay.log.by /\ e.msg.from = relay.log.by)

\* C15: while a handler is suspended inside `for peer in rooms[room]`, the
\* set it iterates is the set it began with: no other handler has added or
\* removed a member, or deleted the room.
C15_NoChangeUnderIteration ==
    relay.on =>
        \A c \in Conns :
            relay.hd[c].it.on =>
                (~relay.hd[c].it.dead /\ Members(relay.hd[c].room) = relay.hd[c].it.orig)

\* C16: once every connection that joined room r is gone and its handler is
\* over, r is not a key of rooms.
C16_RoomForgotten ==
    relay.on =>
        \A r \in RoomIds :
            (JoinedRoom(r) # {} /\ \A c \in JoinedRoom(r) : Over(c)) => r \notin relay.keys

\* C17: a connection that joins a room is sent one peers notice, and its
\* count is the number of members the room has with the joiner added; no
\* other step sends a peers notice.
C17_PeersCount ==
    relay.on =>
        /\ \A e \in relay.log.sent :
              e.msg.type = "peers" =>
                  /\ relay.log.op = "handle" /\ e.to = relay.log.by
                  /\ e.to \in Members(relay.hd[e.to].room)
                  /\ e.msg.count = Cardinality(Members(relay.hd[e.to].room))
        /\ (relay.log.op = "handle" /\ relay.hd[relay.log.by].room \in RoomIds) =>
              \E e \in relay.log.sent : e.msg.type = "peers" /\ e.to = relay.log.by

\* the third of three members was told 3
C17_Witness ==
    /\ relay.on /\ relay.log.op = "handle"
    /\ Cardinality(Members("r1")) = 3
    /\ [to |-> relay.log.by, msg |-> PeersNotice(3)] \in relay.log.sent

\* C18: a connection whose path names no room is closed by the step that
\* accepts it; the step changes no member set and no key of rooms and sends
\* nothing, and the handler is over.
C18_NoRoomRejected ==
    [][(relay'.log.op = "handle" /\ relay'.log.path \in {<<"/">>, <<"/", "">>}) =>
          LET c == relay'.log.by IN
          /\ relay'.conn[c] = "closed"
          /\ relay'.hd[c].at = "done"
          /\ relay'.rooms = relay.rooms /\ relay'.keys = relay.keys
          /\ relay'.log.sent = {}
          /\ \A p \in Conns \ {c} : relay'.hd[p] = relay.hd[p] /\ relay'.conn[p] = relay.conn[p]
    ]_vars

\* a connection with the path '/?room=' was turned away while a room had
\* two members
C18_Witness ==
    /\ relay.on /\ relay.log.op = "handle" /\ relay.log.path = <<"/", "">>
    /\ relay.conn[relay.log.by] = "closed"
    /\ Cardinality(Members("r1")) = 2

\* C24: when the finally block of a member's handler is through, the member
\* is out of its room's set; every connection that remained in the set when
\* it left, and is still a member with its connection open, has been sent
\* the leave notice; the notice goes to nobody else, and to nobody when no
\* member remained, the room's key being dropped then.
C24_LeaveNotified ==
    relay.on =>
        \A e \in relay.log.left :
            LET c == relay.log.by
                r == relay.hd[c].room
            IN  /\ c \notin Members(r)
                /\ c \notin e.got /\ e.got \subseteq e.others
                /\ e.others = {} => (r \notin relay.keys /\ relay.log.sent = {})
                /\ \A p \in e.others :
                      (p \in Members(r) /\ relay.conn[p] = "open") => p \in e.got

\* C27: whatever a handler sends (a frame, a notice) goes to a connection
\* of the handler's own room and to no member of another room, and no
\* connection is in the member sets of two rooms.
C27_RoomIsolation ==
    relay.on =>
        /\ \A e \in relay.log.sent :
              /\ relay.hd[e.to].room = relay.hd[relay.log.by].room
              /\ \A r \in RoomIds \ {relay.hd[relay.log.by].room} : e.to \notin Members(r)
        /\ \A c \in Conns : \A r1, r2 \in RoomIds :
              (c \in Members(r1) /\ c \in Members(r2)) => r1 = r2

\* a frame was forwarded inside r1 while r2 had a member
C27_Witness ==
    /\ relay.on
    /\ \E e \in relay.log.sent : e.msg.type = "frame" /\ e.to \in Members("r1")
    /\ Members("r2") # {}

\* C28: every connection in a room's member set has a handler that is still
\* running.
C28_MembersAreLive ==
    relay.on =>
        \A r \in RoomIds : \A c \in Members(r) : ~Over(c)

\* C21: whenever a Session has a room key, the key is exactly 32 bytes long,
\* whether create_room generated it or set_room decoded it from the text its
\* caller supplied.
C21_KeyIs32Bytes ==
    \A s \in Sessions :
        client[s].room_key # NoKey => KeyLength(client[s].room_key) = KeyLen

\* C22: a Session becomes connected only in a step in which the transport
\* reports one of its channels open; that step schedules one send of the join
\* message and no other step schedules one; and the scheduled send, when the
\* loop runs it, hands exactly the join frame (own id and nick) to the
\* channel: one join per confirmation, never none, never two.
C22_OneJoinPerOpen ==
    [][\A s \in Sessions :
        LET opened == {g \in 1..Len(pcs[s]) : pcs[s][g].rs # "open" /\ pcs'[s][g].rs = "open"}
            joins(t) == Cardinality({k \in 1..Len(t) : t[k].kind = "_send_raw"})
        IN  /\ (~client[s].connected /\ client'[s].connected) => opened # {}
            /\ opened # {} =>
                  /\ Cardinality(opened) = 1
                  /\ client'[s].connected
                  /\ joins(tasks'[s]) = joins(tasks[s]) + 1
            /\ joins(tasks'[s]) > joins(tasks[s]) => opened # {}
            /\ (last'.op = "_send_raw" /\ last'.s = s) =>
                  /\ last'.sent
                  /\ last'.frame.plain = JoinMsg(client[s])
                  /\ Len(wire'[s]) <= Len(wire[s]) + 1
       ]_vars

\* C23: when the wait of a create_room / accept_offer suspended in _wait_ice
\* ends, by the gathering event or by the timeout, the call returns normally
\* the 'O:' / 'A:' code of the local description, having changed nothing
\* else; the event, once set, stays set until the wait ends; a call that
\* finds gathering complete returns its code in the same step, without
\* waiting; and every suspended call does return its code, whether or not
\* the transport ever reports gathering complete.
C23_GatheringTimeoutNotFatal ==
    /\ \A s \in Names :
          (s \in Sessions /\ co[s].at \in {"create_room", "accept_offer"})
              ~> (last.op \in {"create_room", "accept_offer"} /\ last.s = s /\ last.res = "ok"
                  /\ last.code \in {OfferCode(s), AnswerCode(s)})
    /\ [][\A s \in Sessions :
        LET op == co[s].at
            waits == {"create_room", "accept_offer"}
            code == IF last'.op = "create_room" THEN OfferCode(s)' ELSE AnswerCode(s)'
        IN  /\ (op \in waits /\ co'[s].at = op) => (co[s].flag => co'[s].flag)
            /\ (op \in waits /\ co'[s].at # op) =>
                  /\ co'[s].at = "idle"
                  /\ last'.op = op /\ last'.s = s /\ last'.res = "ok"
                  /\ last'.ice = IF co[s].flag THEN "complete" ELSE "TimeoutError"
                  /\ last'.code = code
                  /\ client' = client /\ pcs' = pcs
            /\ (op = "idle" /\ last'.op \in waits /\ last'.s = s /\ last'.ice = "complete") =>
                  /\ co'[s].at = "idle"
                  /\ last'.res = "ok"
                  /\ last'.code = code
       ]_vars

\* create_room has returned its offer code after the timeout of _wait_ice
C23_Witness ==
    /\ last.op = "create_room" /\ last.res = "ok" /\ last.ice = "TimeoutError"
    /\ last.code = OfferCode(last.s)

\* C25: a frame that decrypts but is not the JSON of a well-formed message
\* (its handler ends in JSONDecodeError or AttributeError) is dropped as a
\* whole: the inbound queue is after the handler what it was before.
C25_BadStructureQueuesNothing ==
    [][\A s \in Sessions :
        (last'.op = "_handle_raw" /\ last'.s = s
         /\ last'.res \in {"JSONDecodeError", "AttributeError"})
            => client'[s].msg_queue = client[s].msg_queue
       ]_vars

\* C26: the handler of a sync frame whose entries are all objects appends to
\* the inbound queue, in one piece and behind what was there, one chat Message
\* per entry of type chat, in the order of the frame's list, fields taken
\* from the entry; entries of another type add nothing.
C26_SyncInOrder ==
    [][\A s \in Sessions :
        (last'.op = "_handle_raw" /\ last'.s = s) =>
            LET t == Head(tasks[s])
                msg == t.frame.plain
                all == msg.messages
                chats == SelectSeq(all, LAMBDA e : e.type = "chat")
            IN  (/\ t.frame.b64 /\ t.frame.key = client[s].room_key
                 /\ msg.json = "object" /\ msg.type = "sync"
                 /\ \A i \in DOMAIN all : all[i].obj)
                => /\ last'.res = "ok"
                   /\ Len(client'[s].msg_queue) = Len(client[s].msg_queue) + Len(chats)
                   /\ SubSeq(client'[s].msg_queue, 1, Len(client[s].msg_queue)) = client[s].msg_queue
                   /\ \A i \in DOMAIN chats :
                         client'[s].msg_queue[Len(client[s].msg_queue) + i]
                             = ChatMessage(chats[i], t.arr)
       ]_vars

\* the sync frame with a join entry between its two chats was handled behind
\* an earlier chat: the queue holds ping, old1, old2
C26_Witness ==
    /\ last.op = "_handle_raw" /\ last.res = "ok"
    /\ Len(client[last.s].msg_queue) = 3
    /\ client[last.s].msg_queue[1].text = "ping"
    /\ client[last.s].msg_queue[2].id = "m3"
    /\ client[last.s].msg_queue[3].id = "m4"

\* C29: the first frame a Session hands to its channel is its join frame:
\* as long as nothing of what s sent has reached the other end, the oldest
\* frame in flight from s, if there is one, is a join, never a chat.
C29_JoinPrecedesChat ==
    \A s \in Sessions :
        LET peer == IF s = "X" THEN "Y" ELSE "X" IN
        (peer \in Sessions /\ hist[peer].arr = 0 /\ wire[s] # <<>>)
            => Head(wire[s]).frame.plain.type = "join"
====
